---- MODULE Spec2Model ----
(***************************************************************************)
(* Model of src/src/dylib.cpp: the dylib handle object (POSIX build).      *)
(*                                                                         *)
(* State: a fixed pool of object slots, each unborn, alive or destroyed,   *)
(* with the members m_handle and m_fd; the operating system's view of the  *)
(* handles returned by dlopen and the descriptors returned by open, with   *)
(* the number of dlclose/close calls issued on each; and, for the last     *)
(* operation performed, its arguments, its outcome and the sequence of     *)
(* calls it made into the loader, the symbol-table reader and the          *)
(* demangler.                                                              *)
(*                                                                         *)
(* Strings are sequences of one-character strings.  A const char* argument *)
(* is a record [isNull, str].                                              *)
(***************************************************************************)
EXTENDS Integers, Sequences, FiniteSets, TLC

\* ------------------------------------------------------------------ bounds
\* number of object slots (objects ever constructed in one behaviour)
MaxObjs == 2
\* number of successful dlopen calls in one behaviour
MaxLoads == 2

\* ------------------------------------------------------- program constants
\* nullptr, as native_handle_type and as native_symbol_type
Null == 0
\* the "no descriptor" value of m_fd
NoFd == -1
\* std::string::npos; size() - 1 of an empty string is the same value
NPos == -1
\* the lowest descriptor open() hands out (0, 1, 2 are the standard streams)
FirstFd == 3

\* --------------------------------------------------------------- strings
NullStr == [isNull |-> TRUE, str |-> <<>>]

CStr(s) == [isNull |-> FALSE, str |-> s]

\* filename_components::prefix and ::suffix
Prefix == <<"l", "i", "b">>

Suffix == <<".", "s", "o">>

\* std::string::find_last_of(c): index (from 0) of the last c in s, or npos
FindLastOf(s, c) ==
    LET hits == {i \in 1..Len(s) : s[i] = c}
    IN  IF hits = {} THEN NPos
        ELSE (CHOOSE i \in hits : \A j \in hits : j <= i) - 1

\* std::string::find(t): index (from 0) of the first occurrence of t in s,
\* or npos
Find(s, t) ==
    LET hits == {i \in 0..(Len(s) - Len(t)) :
                    \A k \in 1..Len(t) : s[i + k] = t[k]}
    IN  IF hits = {} THEN NPos
        ELSE CHOOSE i \in hits : \A j \in hits : i <= j

\* s[i] of a std::string, i from 0: s[size()] is the terminating '\0'
CharAt(s, i) == IF i < Len(s) THEN s[i + 1] ELSE "NUL"

\* ----------------------------------------------------- path composition
FinalName(lib_name, decorations) ==
    IF decorations THEN Prefix \o lib_name \o Suffix ELSE lib_name

\* faulty variant: the separator is appended to every non-empty directory
FinalPath_AlwaysSeparator(dir_path) ==
    IF dir_path # <<>> THEN dir_path \o <<"/">> ELSE dir_path

FinalPath(dir_path) ==
    IF dir_path # <<>> /\ FindLastOf(dir_path, "/") # Len(dir_path) - 1
    THEN dir_path \o <<"/">>
    ELSE dir_path

ComposedPath(dir_path, lib_name, decorations) ==
    FinalPath(dir_path) \o FinalName(lib_name, decorations)

\* ------------------------------------------------------------ environment
\* The file system and the loader's search path the program runs against:
\* Files holds the library files open() can open, by path; the loader finds
\* those and, for a path without '/', also the libraries on its search path.
Dir_d == <<"d">>

Dir_dSlash == <<"d", "/">>

Name_a == <<"a">>

Name_b == <<"b">>

Files ==
    (Dir_dSlash \o Prefix \o Name_a \o Suffix) :> "A"
    @@ (Dir_dSlash \o Name_b) :> "B"
    @@ Name_a :> "A"

SearchPathLibs == (Prefix \o Name_b \o Suffix) :> "B"

LoaderLibs == Files @@ SearchPathLibs

DirArgs == {NullStr, CStr(<<>>), CStr(Dir_d), CStr(Dir_dSlash)}

NameArgs == {NullStr, CStr(Name_a), CStr(Name_b)}

\* raw (mangled) symbol names and what the demangler makes of them
Sym_fi == <<"_", "f", "i">>

Sym_fd == <<"_", "f", "d">>

Sym_fooi == <<"_", "f", "o", "o", "i">>

Sym_g == <<"g">>

Sym_v == <<"_", "v">>

Sym_hi == <<"_", "h", "i">>

\* get_demangled_name: the empty string when the name is not a mangled name
get_demangled_name(sym) ==
    CASE sym = Sym_fi -> <<"f", "(", "i", ")">>
      [] sym = Sym_fd -> <<"f", "(", "d", ")">>
      [] sym = Sym_fooi -> <<"f", "o", "o", "(", "i", ")">>
      [] sym = Sym_v -> <<"v">>
      [] sym = Sym_hi -> <<"h", "(", "i", ")">>
      [] OTHER -> <<>>

\* the symbol table of each library, in the order the reader lists it
\* (library B lists _v twice: once per table of the file the reader walks)
SymbolTable(lib) ==
    IF lib = "A" THEN <<Sym_fi, Sym_fd, Sym_fooi, Sym_g, Sym_v, Sym_hi>>
    ELSE <<Sym_fi, Sym_g, Sym_v, Sym_v>>

\* the symbols of each library the loader resolves (_hi is in A's table but
\* hidden), and the address of each
Exported(lib) ==
    IF lib = "A" THEN {Sym_fi, Sym_fd, Sym_fooi, Sym_g, Sym_v}
    ELSE {Sym_fi, Sym_g, Sym_v}

SymbolAddress(lib, sym) ==
    (IF lib = "A" THEN 1000 ELSE 2000)
    + (CHOOSE i \in 1..Len(SymbolTable(lib)) : SymbolTable(lib)[i] = sym)

\* ------------------------------------------------------------------ state
VARIABLES
    objs,       \* slot -> [st, m_handle, m_fd]
    hLib,       \* hLib[h]: the library behind the handle h = 1, 2, ...
    fdLib,      \* fdLib[k]: the library file behind descriptor FirstFd + k - 1
    dlcloses,   \* dlcloses[h]: number of close_lib(h) calls so far
    closes,     \* closes[k]: number of close(FirstFd + k - 1) calls so far
    built,      \* the handles of the constructions that succeeded
    last,       \* the last operation: arguments, outcome, state before it
    trace       \* the external calls the last operation made, in order

vars == <<objs, hLib, fdLib, dlcloses, closes, built, last, trace>>

Slots == 1..MaxObjs

\* the members' default initialisers: m_handle{nullptr}, m_fd{-1}
DefaultMembers == [m_handle |-> Null, m_fd |-> NoFd]

Unborn == [st |-> "unborn", m_handle |-> Null, m_fd |-> NoFd]

Call(c, h, fd, arg) == [call |-> c, h |-> h, fd |-> fd, arg |-> arg]

NoOp ==
    [op |-> "none", this |-> 0, other |-> 0, name |-> NullStr, offset |-> 0,
     kind |-> "none", value |-> Null, list |-> <<>>, direct |-> Null,
     enumerated |-> FALSE, matching |-> <<>>, found |-> FALSE,
     outcome |-> "ok",
     params |-> [demangle |-> FALSE, loadable |-> FALSE],
     args |-> [dir |-> NullStr, name |-> NullStr, decorations |-> FALSE],
     pre |-> [o \in Slots |-> Unborn]]

Init ==
    /\ objs = [o \in Slots |-> Unborn]
    /\ hLib = <<>>
    /\ fdLib = <<>>
    /\ dlcloses = <<>>
    /\ closes = <<>>
    /\ built = {}
    /\ last = NoOp
    /\ trace = <<>>

Alive(o) == objs[o].st = "alive"

FreeSlots == {o \in Slots : objs[o].st = "unborn"}

NextSlot == CHOOSE o \in FreeSlots : \A p \in FreeSlots : o <= p

FdIndex(fd) == fd - FirstFd + 1

\* ------------------------------------------------------------ construction
\* open_lib: dlopen(path, RTLD_NOW | RTLD_LOCAL); every successful call is
\* one acquisition, named by a fresh handle
open_lib(path) ==
    IF path \in DOMAIN LoaderLibs THEN Len(hLib) + 1 ELSE Null

\* open(path, O_RDONLY): a fresh descriptor, or -1
open(path) ==
    IF path \in DOMAIN Files THEN FirstFd + Len(fdLib) ELSE NoFd

\* faulty variant: only dir_path is tested for null
NullParameter_DirOnly(dir_path, lib_name) == dir_path.isNull

\* if (!dir_path || !lib_name)
NullParameter(dir_path, lib_name) == dir_path.isNull \/ lib_name.isNull

\* if (m_fd < 0) throw load_error
FdOpenFailed(fd) == fd < 0

\* dylib::dylib(const char *dir_path, const char *lib_name, bool decorations).
\* A constructor that throws leaves no object, and the destructor of the
\* object under construction is not run.
Construct(dir_path, lib_name, decorations) ==
    /\ FreeSlots # {}
    /\ Len(hLib) < MaxLoads
    /\ LET o == NextSlot
           call == [NoOp EXCEPT !.op = "construct", !.this = o, !.pre = objs,
                       !.args = [dir |-> dir_path, name |-> lib_name,
                                 decorations |-> decorations]]
       IN
       IF NullParameter(dir_path, lib_name)
       THEN /\ last' = [call EXCEPT !.kind = "InvalidArgument"]
            /\ trace' = <<>>
            /\ UNCHANGED <<objs, hLib, fdLib, dlcloses, closes, built>>
       ELSE
         LET path == ComposedPath(dir_path.str, lib_name.str, decorations)
             h == open_lib(path)
             fd == open(path)
         IN
         IF h = Null
         THEN /\ last' = [call EXCEPT !.kind = "LoadError"]
              /\ trace' = <<Call("dlopen", Null, NoFd, path)>>
              /\ UNCHANGED <<objs, hLib, fdLib, dlcloses, closes, built>>
         ELSE
           /\ hLib' = Append(hLib, LoaderLibs[path])
           /\ dlcloses' = Append(dlcloses, 0)
           /\ trace' = <<Call("dlopen", h, NoFd, path),
                         Call("open", Null, fd, path)>>
           /\ IF FdOpenFailed(fd)
              THEN /\ last' = [call EXCEPT !.kind = "LoadError", !.value = h]
                   /\ UNCHANGED <<objs, fdLib, closes, built>>
              ELSE /\ last' = [call EXCEPT !.kind = "ok", !.value = h]
                   /\ objs' = [objs EXCEPT ![o] =
                         [st |-> "alive", m_handle |-> h, m_fd |-> fd]]
                   /\ fdLib' = Append(fdLib, Files[path])
                   /\ closes' = Append(closes, 0)
                   /\ built' = built \cup {h}

\* -------------------------------------------------------------- destruction
\* dylib::~dylib(): the calls it issues
Destructor(obj) ==
    (IF obj.m_handle # Null
     THEN <<Call("dlclose", obj.m_handle, NoFd, <<>>)>> ELSE <<>>)
    \o (IF obj.m_fd > -1
        THEN <<Call("close", Null, obj.m_fd, <<>>)>> ELSE <<>>)

Destroy(o) ==
    /\ Alive(o)
    /\ trace' = Destructor(objs[o])
    /\ dlcloses' = [h \in DOMAIN dlcloses |->
          dlcloses[h] + Cardinality({i \in DOMAIN trace' :
              trace'[i].call = "dlclose" /\ trace'[i].h = h})]
    /\ closes' = [k \in DOMAIN closes |->
          closes[k] + Cardinality({i \in DOMAIN trace' :
              trace'[i].call = "close" /\ FdIndex(trace'[i].fd) = k})]
    /\ objs' = [objs EXCEPT ![o].st = "dead"]
    /\ last' = [NoOp EXCEPT !.op = "destroy", !.this = o, !.kind = "ok",
                            !.pre = objs]
    /\ UNCHANGED <<hLib, fdLib, built>>

\* --------------------------------------------------------------- transfers
\* dylib::dylib(dylib &&other): the members of the new object; m_fd is not in
\* the initialiser list and takes its default
MoveConstructed(other) == [DefaultMembers EXCEPT !.m_handle = other.m_handle]

\* faulty variant: other.m_handle is not reset, so both objects keep the handle
MovedFrom_NotCleared(other) == other

\* ... and what the constructor's body leaves in other
MovedFrom(other) == [other EXCEPT !.m_handle = Null]

MoveConstruct(s) ==
    /\ FreeSlots # {}
    /\ Alive(s)
    /\ LET o == NextSlot
           new == MoveConstructed(objs[s])
       IN  /\ objs' = [objs EXCEPT
                 ![o] = [st |-> "alive", m_handle |-> new.m_handle,
                         m_fd |-> new.m_fd],
                 ![s] = MovedFrom(objs[s])]
           /\ last' = [NoOp EXCEPT !.op = "move_construct", !.this = o,
                                   !.other = s, !.kind = "ok", !.pre = objs]
    /\ trace' = <<>>
    /\ UNCHANGED <<hLib, fdLib, dlcloses, closes, built>>

\* faulty variant: the target's former handle is dropped, not handed to other
MoveAssigned_DropsOld(all, this, other) ==
    IF this # other
    THEN [all EXCEPT ![this].m_handle = all[other].m_handle,
                     ![other].m_handle = Null]
    ELSE all

\* faulty variant: take other's handle and clear other, without the self test
MoveAssigned_NoSelfTest(all, this, other) ==
    [all EXCEPT ![this].m_handle = all[other].m_handle,
                ![other].m_handle = Null]

\* dylib::operator=(dylib &&other): the objects after *this = move(other)
MoveAssigned(all, this, other) ==
    IF this # other
    THEN [all EXCEPT ![this].m_handle = all[other].m_handle,
                     ![other].m_handle = all[this].m_handle]
    ELSE all

MoveAssign(t, s) ==
    /\ Alive(t)
    /\ Alive(s)
    /\ objs' = MoveAssigned(objs, t, s)
    /\ last' = [NoOp EXCEPT !.op = "move_assign", !.this = t, !.other = s,
                            !.kind = "ok", !.pre = objs]
    /\ trace' = <<>>
    /\ UNCHANGED <<hLib, fdLib, dlcloses, closes, built>>

\* ------------------------------------------------------ symbol resolution
\* locate_symbol: dlsym(lib, name)
locate_symbol(lib, name) ==
    IF name \in Exported(hLib[lib]) THEN SymbolAddress(hLib[lib], name)
    ELSE Null

\* get_symbols(handle, fd, demangle = false, loadable = false), the external
\* symbol-table reader: it walks the file behind fd and lists its raw names,
\* or raises a textual error (always, when it is handed no descriptor)
ReaderOutcomes == {"ok", "error"}

\* the reader with its two switches: loadable keeps the names the loader
\* resolves against handle, demangle lists the demangled forms and omits the
\* names that do not demangle
get_symbols_with(handle, fd, demangle, loadable, outcome) ==
    IF fd = NoFd \/ outcome = "error"
    THEN [raised |-> TRUE, list |-> <<>>]
    ELSE
      LET raw == SymbolTable(fdLib[FdIndex(fd)])
          kept == IF loadable
                  THEN SelectSeq(raw, LAMBDA sym :
                          handle # Null /\ sym \in Exported(hLib[handle]))
                  ELSE raw
          names == [i \in DOMAIN kept |-> get_demangled_name(kept[i])]
      IN  [raised |-> FALSE,
           list |-> IF demangle THEN SelectSeq(names, LAMBDA d : d # <<>>)
                    ELSE kept]

get_symbols(handle, fd, outcome) ==
    get_symbols_with(handle, fd, FALSE, FALSE, outcome)

\* symbol_params(): both switches off
DefaultParams == [demangle |-> FALSE, loadable |-> FALSE]

\* faulty variant: no catch, the reader's std::string reaches the caller
symbols_with_NoCatch(obj, params, outcome) ==
    LET r == get_symbols_with(obj.m_handle, obj.m_fd, params.demangle,
                              params.loadable, outcome)
    IN  [kind |-> IF r.raised THEN "std::string" ELSE "ok",
         list |-> r.list,
         trace |-> <<Call("get_symbols", obj.m_handle, obj.m_fd, <<>>)>>]

\* dylib::symbols(symbol_params params): passes m_handle, m_fd and the
\* switches to the reader; a std::string raised by the reader is rethrown as
\* symbol_error
symbols_with(obj, params, outcome) ==
    LET r == get_symbols_with(obj.m_handle, obj.m_fd, params.demangle,
                              params.loadable, outcome)
    IN  [kind |-> IF r.raised THEN "SymbolError" ELSE "ok",
         list |-> r.list,
         trace |-> <<Call("get_symbols", obj.m_handle, obj.m_fd, <<>>)>>]

\* dylib::symbols() as get_symbol calls it
symbols(obj, outcome) == symbols_with(obj, DefaultParams, outcome)

\* faulty variant: any demangled name that starts with symbol_name matches
IsMatch_PrefixOnly(demangled, symbol_name) ==
    /\ demangled # <<>>
    /\ Find(demangled, symbol_name) = 0

\* the test of get_symbol's loop on one demangled name
IsMatch(demangled, symbol_name) ==
    /\ demangled # <<>>
    /\ Find(demangled, symbol_name) = 0
    /\ \/ CharAt(demangled, Len(symbol_name)) = "("
       \/ CharAt(demangled, Len(symbol_name)) = "NUL"

\* the loop of get_symbol over all_symbols: matching_symbols
MatchingSymbols(all_symbols, symbol_name) ==
    SelectSeq(all_symbols,
              LAMBDA sym : IsMatch(get_demangled_name(sym), symbol_name))

\* the demangler calls of that loop
DemangleCalls(all_symbols) ==
    [i \in DOMAIN all_symbols |-> Call("demangle", Null, NoFd, all_symbols[i])]

\* faulty variant: with several matches, the first one is resolved
ResolveMatches_PickFirst(obj, matching_symbols) ==
    IF Len(matching_symbols) = 0
    THEN [kind |-> "SymbolError", value |-> Null, trace |-> <<>>]
    ELSE LET symbol == locate_symbol(obj.m_handle, Head(matching_symbols))
         IN  [kind |-> IF symbol = Null THEN "SymbolError" ELSE "ok",
              value |-> symbol,
              trace |-> <<Call("dlsym", obj.m_handle, NoFd,
                               Head(matching_symbols))>>]

\* the branch of get_symbol on matching_symbols.size()
ResolveMatches(obj, matching_symbols) ==
    IF Len(matching_symbols) = 0
    THEN [kind |-> "SymbolError", value |-> Null, trace |-> <<>>]
    ELSE IF Len(matching_symbols) = 1
    THEN LET symbol == locate_symbol(obj.m_handle, Head(matching_symbols))
         IN  [kind |-> IF symbol = Null THEN "SymbolError" ELSE "ok",
              value |-> symbol,
              trace |-> <<Call("dlsym", obj.m_handle, NoFd,
                               Head(matching_symbols))>>]
    ELSE [kind |-> "SymbolError", value |-> Null, trace |-> <<>>]

\* the fallback of get_symbol, entered when the direct lookup returned null
ResolveFallback(obj, symbol_name, outcome) ==
    LET all == symbols(obj, outcome)
        matching == MatchingSymbols(all.list, symbol_name)
        r == ResolveMatches(obj, matching)
    IN  IF all.kind # "ok"
        THEN [kind |-> all.kind, value |-> Null, trace |-> all.trace,
              enumerated |-> FALSE, list |-> <<>>, matching |-> <<>>]
        ELSE [kind |-> r.kind, value |-> r.value,
              trace |-> all.trace \o DemangleCalls(all.list) \o r.trace,
              enumerated |-> TRUE, list |-> all.list, matching |-> matching]

\* faulty variant: the symbol table is enumerated before the direct lookup is tested
get_symbol_EnumeratesFirst(obj, symbol_name, outcome) ==
    IF symbol_name.isNull
    THEN [kind |-> "InvalidArgument", value |-> Null, trace |-> <<>>,
          direct |-> Null, enumerated |-> FALSE, list |-> <<>>,
          matching |-> <<>>]
    ELSE IF obj.m_handle = Null
    THEN [kind |-> "LogicError", value |-> Null, trace |-> <<>>,
          direct |-> Null, enumerated |-> FALSE, list |-> <<>>,
          matching |-> <<>>]
    ELSE
      LET symbol == locate_symbol(obj.m_handle, symbol_name.str)
          first == <<Call("dlsym", obj.m_handle, NoFd, symbol_name.str)>>
          fb == ResolveFallback(obj, symbol_name.str, outcome)
      IN  IF symbol # Null
          THEN [kind |-> "ok", value |-> symbol,
                trace |-> first \o symbols(obj, outcome).trace,
                direct |-> symbol, enumerated |-> FALSE, list |-> <<>>,
                matching |-> <<>>]
          ELSE [kind |-> fb.kind, value |-> fb.value,
                trace |-> first \o fb.trace, direct |-> Null,
                enumerated |-> fb.enumerated, list |-> fb.list,
                matching |-> fb.matching]

\* faulty variant: the handle is tested before the name
get_symbol_HandleFirst(obj, symbol_name, outcome) ==
    IF obj.m_handle = Null
    THEN [kind |-> "LogicError", value |-> Null, trace |-> <<>>,
          direct |-> Null, enumerated |-> FALSE, list |-> <<>>,
          matching |-> <<>>]
    ELSE IF symbol_name.isNull
    THEN [kind |-> "InvalidArgument", value |-> Null, trace |-> <<>>,
          direct |-> Null, enumerated |-> FALSE, list |-> <<>>,
          matching |-> <<>>]
    ELSE
      LET symbol == locate_symbol(obj.m_handle, symbol_name.str)
          first == <<Call("dlsym", obj.m_handle, NoFd, symbol_name.str)>>
          fb == ResolveFallback(obj, symbol_name.str, outcome)
      IN  IF symbol # Null
          THEN [kind |-> "ok", value |-> symbol, trace |-> first,
                direct |-> symbol, enumerated |-> FALSE, list |-> <<>>,
                matching |-> <<>>]
          ELSE [kind |-> fb.kind, value |-> fb.value,
                trace |-> first \o fb.trace, direct |-> Null,
                enumerated |-> fb.enumerated, list |-> fb.list,
                matching |-> fb.matching]

\* dylib::get_symbol(const char *symbol_name): outcome and calls
get_symbol(obj, symbol_name, outcome) ==
    IF symbol_name.isNull
    THEN [kind |-> "InvalidArgument", value |-> Null, trace |-> <<>>,
          direct |-> Null, enumerated |-> FALSE, list |-> <<>>,
          matching |-> <<>>]
    ELSE IF obj.m_handle = Null
    THEN [kind |-> "LogicError", value |-> Null, trace |-> <<>>,
          direct |-> Null, enumerated |-> FALSE, list |-> <<>>,
          matching |-> <<>>]
    ELSE
      LET symbol == locate_symbol(obj.m_handle, symbol_name.str)
          first == <<Call("dlsym", obj.m_handle, NoFd, symbol_name.str)>>
          fb == ResolveFallback(obj, symbol_name.str, outcome)
      IN  IF symbol # Null
          THEN [kind |-> "ok", value |-> symbol, trace |-> first,
                direct |-> symbol, enumerated |-> FALSE, list |-> <<>>,
                matching |-> <<>>]
          ELSE [kind |-> fb.kind, value |-> fb.value,
                trace |-> first \o fb.trace, direct |-> Null,
                enumerated |-> fb.enumerated, list |-> fb.list,
                matching |-> fb.matching]

SymbolArgs ==
    {NullStr, CStr(<<>>), CStr(<<"f">>), CStr(<<"f", "o">>),
     CStr(<<"f", "o", "o">>), CStr(<<"v">>), CStr(<<"h">>), CStr(Sym_g)}

Resolve(o, symbol_name, outcome) ==
    /\ Alive(o)
    /\ LET r == get_symbol(objs[o], symbol_name, outcome)
       IN  /\ last' = [NoOp EXCEPT !.op = "resolve", !.this = o,
                          !.name = symbol_name, !.kind = r.kind,
                          !.value = r.value, !.direct = r.direct,
                          !.enumerated = r.enumerated, !.list = r.list,
                          !.matching = r.matching, !.outcome = outcome,
                          !.pre = objs]
           /\ trace' = r.trace
    /\ UNCHANGED <<objs, hLib, fdLib, dlcloses, closes, built>>

\* --------------------------------------------------------- existence probe
\* faulty variant: the probe goes through get_symbol and its fallback
has_symbol_WithFallback(obj, symbol_name) ==
    LET r == get_symbol(obj, symbol_name, "ok")
    IN  [found |-> r.kind = "ok", trace |-> r.trace]

\* dylib::has_symbol(const char *symbol_name) noexcept: result and calls
has_symbol(obj, symbol_name) ==
    IF obj.m_handle = Null \/ symbol_name.isNull
    THEN [found |-> FALSE, trace |-> <<>>]
    ELSE [found |-> locate_symbol(obj.m_handle, symbol_name.str) # Null,
          trace |-> <<Call("dlsym", obj.m_handle, NoFd, symbol_name.str)>>]

ProbeArgs == {NullStr, CStr(Sym_g), CStr(<<"f", "o", "o">>)}

HasSymbol(o, symbol_name) ==
    /\ Alive(o)
    /\ LET r == has_symbol(objs[o], symbol_name)
       IN  /\ last' = [NoOp EXCEPT !.op = "has_symbol", !.this = o,
                          !.name = symbol_name, !.kind = "ok",
                          !.found = r.found, !.pre = objs]
           /\ trace' = r.trace
    /\ UNCHANGED <<objs, hLib, fdLib, dlcloses, closes, built>>

\* ----------------------------------------------------- resolution by offset
\* faulty variant: offset 0 is rejected with the negative offsets
get_symbol_by_offset_RejectsZero(obj, offset) ==
    IF obj.m_handle = Null
    THEN [kind |-> "LogicError", value |-> Null, trace |-> <<>>]
    ELSE IF offset <= 0
    THEN [kind |-> "InvalidArgument", value |-> Null, trace |-> <<>>]
    ELSE [kind |-> "ok", value |-> obj.m_handle + offset,
          trace |-> <<Call("cout", Null, NoFd, <<>>)>>]

\* dylib::get_symbol_by_offset(std::ptrdiff_t offset): outcome and calls.
\* The handle is cast to char* and offset is added to it; the address is
\* written to std::cout and returned.  (A user-space pointer plus a
\* non-negative ptrdiff_t stays below 2^64, so the sum does not wrap.)
get_symbol_by_offset(obj, offset) ==
    IF obj.m_handle = Null
    THEN [kind |-> "LogicError", value |-> Null, trace |-> <<>>]
    ELSE IF offset < 0
    THEN [kind |-> "InvalidArgument", value |-> Null, trace |-> <<>>]
    ELSE [kind |-> "ok", value |-> obj.m_handle + offset,
          trace |-> <<Call("cout", Null, NoFd, <<>>)>>]

OffsetArgs == {-1, 0, 2}

ResolveAt(o, offset) ==
    /\ Alive(o)
    /\ LET r == get_symbol_by_offset(objs[o], offset)
       IN  /\ last' = [NoOp EXCEPT !.op = "resolve_at", !.this = o,
                          !.offset = offset, !.kind = r.kind,
                          !.value = r.value, !.pre = objs]
           /\ trace' = r.trace
    /\ UNCHANGED <<objs, hLib, fdLib, dlcloses, closes, built>>

\* -------------------------------------------------------------- enumeration
\* faulty variant: the enumeration gives up the object's descriptor
ListSymbols_DropsFd(o, params, outcome) ==
    /\ Alive(o)
    /\ LET r == symbols_with(objs[o], params, outcome)
       IN  /\ last' = [NoOp EXCEPT !.op = "list_symbols", !.this = o,
                          !.params = params, !.outcome = outcome,
                          !.kind = r.kind, !.list = r.list, !.pre = objs]
           /\ trace' = r.trace
    /\ objs' = [objs EXCEPT ![o].m_fd = NoFd]
    /\ UNCHANGED <<hLib, fdLib, dlcloses, closes, built>>

ParamArgs ==
    {DefaultParams, [demangle |-> TRUE, loadable |-> TRUE]}

ListSymbols(o, params, outcome) ==
    /\ Alive(o)
    /\ LET r == symbols_with(objs[o], params, outcome)
       IN  /\ last' = [NoOp EXCEPT !.op = "list_symbols", !.this = o,
                          !.params = params, !.outcome = outcome,
                          !.kind = r.kind, !.list = r.list, !.pre = objs]
           /\ trace' = r.trace
    /\ UNCHANGED <<objs, hLib, fdLib, dlcloses, closes, built>>

\* ----------------------------------------------------------- specification
Next ==
    \/ \E d \in DirArgs, n \in NameArgs, dec \in BOOLEAN : Construct(d, n, dec)
    \/ \E o \in Slots : Destroy(o)
    \/ \E s \in Slots : MoveConstruct(s)
    \/ \E t \in Slots, s \in Slots : MoveAssign(t, s)
    \/ \E o \in Slots, n \in SymbolArgs, r \in ReaderOutcomes : Resolve(o, n, r)
    \/ \E o \in Slots, n \in ProbeArgs : HasSymbol(o, n)
    \/ \E o \in Slots, k \in OffsetArgs : ResolveAt(o, k)
    \/ \E o \in Slots, p \in ParamArgs, r \in ReaderOutcomes :
          ListSymbols(o, p, r)

Spec == Init /\ [][Next]_vars

\* ------------------------------------------------------------ properties
Cleared(obj) == obj.m_handle = Null /\ obj.m_fd = NoFd

Loaded(obj) == obj.m_handle # Null /\ obj.m_fd # NoFd

Holders(h) == {o \in Slots : Alive(o) /\ objs[o].m_handle = h}

FdHolders(fd) == {o \in Slots : Alive(o) /\ objs[o].m_fd = fd}

CallsOf(c) == {i \in DOMAIN trace : trace[i].call = c}

\* C1: every handle returned to a successful construction and every
\* descriptor opened at construction is, at any time, either held by exactly
\* one live object and not yet released, or held by none and released exactly
\* once; so once every object is destroyed each was released exactly once.
\* Destroying a cleared object issues no release call.
C1_ReleasedExactlyOnce ==
    /\ \A h \in built : dlcloses[h] + Cardinality(Holders(h)) = 1
    /\ \A k \in DOMAIN closes :
          closes[k] + Cardinality(FdHolders(FirstFd + k - 1)) = 1
    /\ (\A o \in Slots : ~Alive(o)) =>
          /\ \A h \in built : dlcloses[h] = 1
          /\ \A k \in DOMAIN closes : closes[k] = 1
    /\ (last.op = "destroy" /\ Cleared(last.pre[last.this])) => trace = <<>>

\* a handle went through a move (one destroyed object held the handle without
\* a descriptor, another a descriptor without a handle) and all are destroyed
C1_Witness ==
    /\ built # {}
    /\ \A o \in Slots : ~Alive(o)
    /\ \E o \in Slots : objs[o].st = "dead" /\ objs[o].m_handle # Null
                        /\ objs[o].m_fd = NoFd
    /\ \E o \in Slots : objs[o].st = "dead" /\ objs[o].m_handle = Null
                        /\ objs[o].m_fd # NoFd

\* C2: a construction that fails with LoadError after the loader returned a
\* handle (the read-only open failed) has closed that handle.
C2_FailedOpenClosesHandle ==
    (last.op = "construct" /\ last.kind = "LoadError" /\ last.value # Null)
        => dlcloses[last.value] = 1

\* C3: every live object holds a handle and a descriptor, or neither.
C3_BothValidOrBothCleared ==
    \A o \in Slots : Alive(o) => Loaded(objs[o]) \/ Cleared(objs[o])

\* C4: move-construction from a loaded source gives the new object the
\* source's handle and descriptor and leaves the source cleared.
C4_MoveConstructTransfers ==
    (last.op = "move_construct" /\ Loaded(last.pre[last.other])) =>
        /\ objs[last.this].m_handle = last.pre[last.other].m_handle
        /\ objs[last.this].m_fd = last.pre[last.other].m_fd
        /\ Cleared(objs[last.other])

\* C5: move-assignment of a loaded source to a distinct target gives the
\* target the source's handle and descriptor and leaves the source cleared,
\* so that a resolve of a non-null name on the source fails with LogicError.
C5_MoveAssignTransfers ==
    (last.op = "move_assign" /\ last.this # last.other
        /\ Loaded(last.pre[last.other])) =>
        /\ objs[last.this].m_handle = last.pre[last.other].m_handle
        /\ objs[last.this].m_fd = last.pre[last.other].m_fd
        /\ Cleared(objs[last.other])
        /\ \A n \in SymbolArgs \ {NullStr}, r \in ReaderOutcomes :
              get_symbol(objs[last.other], n, r).kind = "LogicError"

\* C6: self-move-assignment leaves every object's members as they were and
\* issues no call.
C6_SelfMoveAssignNoOp ==
    (last.op = "move_assign" /\ last.this = last.other) =>
        /\ objs = last.pre
        /\ trace = <<>>

C6_Witness ==
    /\ last.op = "move_assign"
    /\ last.this = last.other
    /\ Loaded(objs[last.this])

\* C7: a construction with a null argument fails with InvalidArgument and
\* never calls the loader; any other calls the loader exactly once, fails
\* with LoadError and leaves no object when the loader returned null, and
\* yields an object with a non-null handle when a library file exists at the
\* path handed to the loader.
C7_ConstructionOutcomes ==
    last.op = "construct" =>
        IF last.args.dir.isNull \/ last.args.name.isNull
        THEN last.kind = "InvalidArgument" /\ trace = <<>> /\ objs = last.pre
        ELSE /\ Cardinality(CallsOf("dlopen")) = 1
             /\ trace[1].call = "dlopen"
             /\ trace[1].h = Null =>
                   last.kind = "LoadError" /\ objs = last.pre
             /\ trace[1].arg \in DOMAIN Files =>
                   /\ last.kind = "ok"
                   /\ Alive(last.this)
                   /\ objs[last.this].m_handle # Null
                   /\ objs[last.this].m_handle = trace[1].h

C7_Witness ==
    /\ last.op = "construct"
    /\ last.args.decorations
    /\ last.kind = "ok"
    /\ trace[1].arg \in DOMAIN Files

\* the matching rule as the specification words it: the demangled form is
\* not empty, starts with the name, and then ends or continues with '('
StartsWith(s, t) == Len(t) <= Len(s) /\ SubSeq(s, 1, Len(t)) = t

MatchesByRule(sym, name) ==
    LET d == get_demangled_name(sym)
    IN  /\ d # <<>>
        /\ StartsWith(d, name)
        /\ Len(d) = Len(name) \/ d[Len(name) + 1] = "("

MatchIndices(list, name) ==
    {i \in DOMAIN list : MatchesByRule(list[i], name)}

\* C8: when the direct lookup of a non-null name on a loaded handle returned
\* null, the outcome follows the number of enumerated symbols that match (none
\* are enumerated when the reader raised): no match gives SymbolError, one
\* match gives the address the loader has for that symbol (SymbolError when
\* it has none), several give SymbolError and no address.
C8_OutcomeByMatchCount ==
    (last.op = "resolve" /\ ~last.name.isNull
        /\ last.pre[last.this].m_handle # Null
        /\ locate_symbol(last.pre[last.this].m_handle, last.name.str) = Null)
    =>  LET m == MatchIndices(last.list, last.name.str)
            h == last.pre[last.this].m_handle
        IN  /\ Cardinality(m) = 0 => last.kind = "SymbolError"
            /\ Cardinality(m) = 1 =>
                  LET a == locate_symbol(h, last.list[CHOOSE i \in m : TRUE])
                  IN  IF a = Null THEN last.kind = "SymbolError"
                      ELSE last.kind = "ok" /\ last.value = a
            /\ Cardinality(m) > 1 =>
                  last.kind = "SymbolError" /\ last.value = Null

\* several symbols matched and resolve failed
C8_Witness ==
    /\ last.op = "resolve"
    /\ last.enumerated
    /\ Cardinality(MatchIndices(last.list, last.name.str)) > 1
    /\ last.kind = "SymbolError"

\* C9: the symbols collected are exactly the enumerated ones that match by
\* the rule, in order; f does not match foo(i), v matches v, and a symbol
\* that does not demangle matches nothing.
C9_MatchRule ==
    /\ (last.op = "resolve" /\ last.enumerated) =>
          last.matching =
              SelectSeq(last.list,
                        LAMBDA sym : MatchesByRule(sym, last.name.str))
    /\ ~IsMatch(get_demangled_name(Sym_fooi), <<"f">>)
    /\ IsMatch(get_demangled_name(Sym_v), <<"v">>)
    /\ \A n \in SymbolArgs : ~IsMatch(get_demangled_name(Sym_g), n.str)

\* the name f was looked up in a table that holds f(i), f(d), foo(i) and g
C9_Witness ==
    /\ last.op = "resolve"
    /\ last.enumerated
    /\ last.name = CStr(<<"f">>)
    /\ \E i \in DOMAIN last.list : last.list[i] = Sym_fooi
    /\ \E i \in DOMAIN last.list : last.list[i] = Sym_g
    /\ Len(last.matching) = 2

\* C10: resolve of a non-null name on a loaded handle first asks the loader
\* for the exact name; a non-null answer is returned with no call to the
\* reader or the demangler, and a null answer is followed by exactly one call
\* to the reader.
C10_DirectFirst ==
    (last.op = "resolve" /\ ~last.name.isNull
        /\ last.pre[last.this].m_handle # Null) =>
        LET h == last.pre[last.this].m_handle
            a == locate_symbol(h, last.name.str)
        IN  /\ Len(trace) >= 1
            /\ trace[1] = Call("dlsym", h, NoFd, last.name.str)
            /\ a # Null =>
                  /\ last.kind = "ok"
                  /\ last.value = a
                  /\ CallsOf("get_symbols") = {}
                  /\ CallsOf("demangle") = {}
            /\ a = Null => Cardinality(CallsOf("get_symbols")) = 1
            /\ CallsOf("get_symbols") # {} => a = Null

\* a direct hit: one call, to the loader
C10_Witness ==
    /\ last.op = "resolve"
    /\ last.direct # Null
    /\ last.kind = "ok"
    /\ Len(trace) = 1

\* C11: resolve of a null name fails with InvalidArgument, whether the
\* handle is loaded or null; resolve of a non-null name on a null handle fails
\* with LogicError; in both cases it calls neither the loader nor the reader.
C11_ResolveValidatesFirst ==
    last.op = "resolve" =>
        /\ last.name.isNull =>
              last.kind = "InvalidArgument" /\ trace = <<>>
        /\ (~last.name.isNull /\ last.pre[last.this].m_handle = Null) =>
              last.kind = "LogicError" /\ trace = <<>>

\* a null name was resolved on an object whose handle is null
C11_Witness ==
    /\ last.op = "resolve"
    /\ last.name.isNull
    /\ objs[last.this].m_handle = Null
    /\ last.kind = "InvalidArgument"

\* C12: has_symbol returns, in every object state, without an error: false
\* when the handle is null or the name is null, and otherwise true exactly
\* when the loader resolves the exact name; it calls neither the reader nor
\* the demangler, so a name that resolve finds only through its fallback is
\* reported absent.
C12_HasSymbolExactProbe ==
    last.op = "has_symbol" =>
        LET obj == last.pre[last.this]
        IN  /\ last.kind = "ok"
            /\ (obj.m_handle = Null \/ last.name.isNull) => ~last.found
            /\ (obj.m_handle # Null /\ ~last.name.isNull) =>
                  (last.found <=>
                      locate_symbol(obj.m_handle, last.name.str) # Null)
            /\ CallsOf("get_symbols") = {}
            /\ CallsOf("demangle") = {}
            /\ (/\ ~last.name.isNull
                /\ obj.m_handle # Null
                /\ get_symbol(obj, last.name, "ok").direct = Null)
                  => ~last.found

\* has_symbol answered false for a name that resolve finds by its fallback
C12_Witness ==
    /\ last.op = "has_symbol"
    /\ ~last.found
    /\ ~last.name.isNull
    /\ get_symbol(objs[last.this], last.name, "ok").kind = "ok"
    /\ get_symbol(objs[last.this], last.name, "ok").enumerated

\* C13: resolve_at on a null handle fails with LogicError whatever the
\* offset; on a non-null handle a negative offset fails with InvalidArgument
\* and an offset >= 0 returns the handle's address plus the offset, with no
\* call to the loader or the reader and never SymbolError; offset 0 returns
\* the handle's address itself.
C13_ResolveAt ==
    last.op = "resolve_at" =>
        LET h == last.pre[last.this].m_handle
        IN  /\ h = Null => last.kind = "LogicError"
            /\ (h # Null /\ last.offset < 0) => last.kind = "InvalidArgument"
            /\ (h # Null /\ last.offset >= 0) =>
                  last.kind = "ok" /\ last.value = h + last.offset
            /\ (h # Null /\ last.offset = 0) => last.value = h
            /\ last.kind # "SymbolError"
            /\ CallsOf("get_symbols") = {}
            /\ CallsOf("dlsym") = {}

\* offset 0 on a loaded handle
C13_Witness ==
    /\ last.op = "resolve_at"
    /\ last.offset = 0
    /\ last.kind = "ok"
    /\ last.value = objs[last.this].m_handle
    /\ last.value # Null

\* the descriptor opened by the construction that returned handle h:
\* descriptors are handed out in the order of the successful constructions
ConstructionFd(h) == FirstFd + Cardinality({g \in built : g <= h}) - 1

\* C14: whenever an object that holds a non-null handle has the reader
\* called (by list_symbols or by resolve's fallback), the reader is handed
\* that handle and the descriptor opened when that handle was constructed.
C14_ReaderGetsOwnDescriptor ==
    (last.op \in {"list_symbols", "resolve"}
        /\ last.pre[last.this].m_handle # Null) =>
        \A i \in CallsOf("get_symbols") :
            /\ trace[i].h = last.pre[last.this].m_handle
            /\ trace[i].fd = ConstructionFd(trace[i].h)

\* whether the reader raised in the last operation
ReaderRaised ==
    get_symbols_with(last.pre[last.this].m_handle, last.pre[last.this].m_fd,
                     last.params.demangle, last.params.loadable,
                     last.outcome).raised

\* C15: when the reader raises during list_symbols or during the
\* enumeration of resolve's fallback, the operation fails with SymbolError
\* and returns no list and no address.
C15_ReaderFailureIsSymbolError ==
    (CallsOf("get_symbols") # {} /\ ReaderRaised) =>
        /\ last.op \in {"list_symbols", "resolve"}
        /\ last.kind = "SymbolError"
        /\ last.list = <<>>
        /\ last.value = Null

\* the reader raised in resolve's fallback, on an object that holds both a
\* handle and a descriptor
C15_Witness ==
    /\ last.op = "resolve"
    /\ CallsOf("get_symbols") # {}
    /\ last.outcome = "error"
    /\ Loaded(objs[last.this])
    /\ last.kind = "SymbolError"

\* the path as the specification words it
EndsWithSeparator(dir) == dir # <<>> /\ dir[Len(dir)] = "/"

PathByRule(dir, name, decorations) ==
    dir
    \o (IF dir # <<>> /\ ~EndsWithSeparator(dir) THEN <<"/">> ELSE <<>>)
    \o (IF decorations THEN Prefix \o name \o Suffix ELSE name)

\* C16: the loader is handed the directory, one separator exactly when the
\* directory is non-empty and does not end with one, and the name, decorated
\* exactly when decorations are asked for; an empty directory gives the bare
\* (decorated) name; the descriptor is opened on the same path.
C16_ComposedPath ==
    (last.op = "construct" /\ last.kind # "InvalidArgument") =>
        LET path == PathByRule(last.args.dir.str, last.args.name.str,
                               last.args.decorations)
        IN  /\ trace[1].call = "dlopen"
            /\ trace[1].arg = path
            /\ last.args.dir.str = <<>> => Head(trace[1].arg) # "/"
            /\ \A i \in CallsOf("open") : trace[i].arg = path

\* a decorated load from a directory given without its separator, and one
\* descriptor opened
C16_Witness ==
    /\ last.op = "construct"
    /\ last.kind = "ok"
    /\ last.args.dir = CStr(Dir_d)
    /\ last.args.decorations
    /\ CallsOf("open") # {}

Queries == {"resolve", "resolve_at", "has_symbol", "list_symbols"}

\* the outcome the last query would have if it were asked again now
AskedAgain ==
    LET obj == objs[last.this]
    IN  CASE last.op = "resolve" ->
               LET r == get_symbol(obj, last.name, last.outcome)
               IN  <<r.kind, r.value, r.list>>
          [] last.op = "resolve_at" ->
               LET r == get_symbol_by_offset(obj, last.offset)
               IN  <<r.kind, r.value, <<>>>>
          [] last.op = "has_symbol" ->
               <<IF has_symbol(obj, last.name).found THEN "found"
                 ELSE "absent", Null, <<>>>>
          [] OTHER ->
               LET r == symbols_with(obj, last.params, last.outcome)
               IN  <<r.kind, Null, r.list>>

Answered ==
    <<IF last.op = "has_symbol"
      THEN (IF last.found THEN "found" ELSE "absent") ELSE last.kind,
      last.value, last.list>>

\* C17: a query, whether it returns or fails, leaves every object's handle
\* and descriptor and the loader's resources as they were and closes
\* nothing; the same query asked again of the object has the same outcome.
C17_QueriesChangeNothing ==
    /\ [](last.op \in Queries =>
            /\ objs = last.pre
            /\ \A i \in DOMAIN trace :
                  trace[i].call \notin {"dlclose", "close"}
            /\ AskedAgain = Answered)
    /\ [][last'.op \in Queries =>
            /\ objs' = objs
            /\ hLib' = hLib
            /\ fdLib' = fdLib
            /\ dlcloses' = dlcloses
            /\ closes' = closes]_vars

\* a query failed on an object that holds a handle and a descriptor
C17_Witness ==
    /\ last.op \in Queries
    /\ last.kind \in {"SymbolError", "InvalidArgument"}
    /\ Loaded(objs[last.this])
    /\ objs = last.pre

\* C18: move-assignment makes no call; after a loaded source is assigned to
\* a distinct loaded target, the handle the target held is still open and is
\* held by the source; and a handle is closed only by the destruction of the
\* object that holds it.
C18_SwapKeepsOldHandleOpen ==
    /\ [](last.op = "move_assign" =>
            /\ trace = <<>>
            /\ (/\ last.this # last.other
                /\ last.pre[last.this].m_handle # Null
                /\ last.pre[last.other].m_handle # Null) =>
                  /\ objs[last.other].m_handle = last.pre[last.this].m_handle
                  /\ dlcloses[last.pre[last.this].m_handle] = 0)
    /\ [][\A h \in DOMAIN dlcloses :
            dlcloses'[h] # dlcloses[h] =>
                /\ last'.op = "destroy"
                /\ objs[last'.this].m_handle = h
                /\ dlcloses'[h] = dlcloses[h] + 1]_vars

\* the target's former handle, now the source's, is still open
C18_Witness ==
    /\ last.op = "move_assign"
    /\ last.this # last.other
    /\ last.pre[last.this].m_handle # Null
    /\ last.pre[last.other].m_handle # Null
    /\ objs[last.other].m_handle = last.pre[last.this].m_handle
    /\ dlcloses[objs[last.other].m_handle] = 0

====
